---- MODULE Spec2Model ----
(***************************************************************************)
(* Model of reddragon/bloomfilter.go (src/bloomfilter.go): the standard,   *)
(* the counting and the scalable Bloom filter.                             *)
(*                                                                         *)
(* Numbers wider than 31 bits are kept as little-endian sequences of       *)
(* 8-bit limbs (limb 1 is the least significant byte), so that the 64-bit  *)
(* FNV-1 hash and the uint32 probe arithmetic keep their exact width.      *)
(* float64 values are kept as fixed-point integers scaled by Scale.        *)
(***************************************************************************)
EXTENDS Integers, Sequences, FiniteSets, TLC

----------------------------------------------------------------------------
(* Bounds of the model *)

\* Largest number of Add calls on the standard filter in one behaviour
MaxAdds == 4

\* Largest number of calls on the counting filter after its pre-loading
MaxOps == 3

\* Largest probe number i for which an index is computed on its own
MaxProbe == 2

\* Largest maxBloomFilters passed to NewScalableBloomFilter
MaxFilters == 2

----------------------------------------------------------------------------
(* Inputs: elements are byte slices *)

Hello == <<72, 101, 108, 108, 111>>
Jello == <<74, 101, 108, 108, 111>>
Elements == {Hello, Jello, <<97>>, <<>>}

\* numHashFuncs / bfSize passed to the constructors
HashCounts == {1, 2, 3}
Sizes == {3, 4, 5}

\* Elements passed to the counting and to the scalable filter
FewElements == {Hello, Jello, <<97>>}

\* cbfSize passed to NewCountingBloomFilter
CountSizes == {4, 5}

\* firstBFSize, growthFactor and targetFPR (0.01 and 0.5, scaled by Scale)
\* passed to NewScalableBloomFilter
FirstSizes == {3, 4}
GrowthFactors == {1, 2}
Scale == 10000
TargetFPRs == {100, 5000}

\* Lengths of the runs of Add(e) and of Remove(e) calls a caller may start
\* with on a new counting filter (a run is a loop around the one call)
AddRuns == {254, 256}
RemoveRuns == {254}

----------------------------------------------------------------------------
(* hash/fnv New64 (FNV-1, 64 bit) as used by getHash *)

\* 0xcbf29ce484222325, least significant byte first
offset64 == <<37, 35, 34, 132, 228, 156, 242, 203>>

\* prime64 = 0x100000001b3 = 2^40 + prime64Low
prime64Low == 435
prime64ShiftLimbs == 5

Byte == 256

RECURSIVE Xor(_, _, _)
Xor(a, b, bits) ==
    IF bits = 0 THEN 0
    ELSE (((a % 2) + (b % 2)) % 2) + 2 * Xor(a \div 2, b \div 2, bits - 1)

\* column i of hash * prime64, carry of the lower columns included
RECURSIVE MulColumn(_, _)
MulColumn(h, i) ==
    h[i] * prime64Low
    + (IF i > prime64ShiftLimbs THEN h[i - prime64ShiftLimbs] ELSE 0)
    + (IF i = 1 THEN 0 ELSE MulColumn(h, i - 1) \div Byte)

\* hash *= prime64 (mod 2^64)
MulPrime(h) == [i \in 1..8 |-> MulColumn(h, i) % Byte]

\* hash ^= uint64(c)
XorByte(h, c) == [h EXCEPT ![1] = Xor(h[1], c, 8)]

\* Reset(); Write(b); Sum64()
RECURSIVE Write(_, _)
Write(h, b) ==
    IF b = <<>> THEN h
    ELSE Write(XorByte(MulPrime(h), Head(b)), Tail(b))

Sum64(b) == Write(offset64, b)

\* getHash: h1 = low 32 bits, h2 = high 32 bits (4 limbs each)
getHash(b) ==
    LET hash64 == Sum64(b)
    IN  [h1 |-> SubSeq(hash64, 1, 4), h2 |-> SubSeq(hash64, 5, 8)]

HashOf == [e \in Elements |-> getHash(e)]

----------------------------------------------------------------------------
(* ind := (h1 + uint32(i)*h2) % uint32(m) *)

\* column j of h1 + i*h2, carry of the lower columns included
RECURSIVE SumColumn(_, _, _, _)
SumColumn(h1, h2, i, j) ==
    h1[j] + i * h2[j]
    + (IF j = 1 THEN 0 ELSE SumColumn(h1, h2, i, j - 1) \div Byte)

\* WrapSum with the carries between the bytes lost
WrapSumNoCarry(h1, h2, i) == [j \in 1..4 |-> (h1[j] + i * h2[j]) % Byte]

\* h1 + uint32(i)*h2 in uint32: the carry out of limb 4 is lost
WrapSum(h1, h2, i) == [j \in 1..4 |-> SumColumn(h1, h2, i, j) % Byte]

\* x % m for a number x given by its limbs
RECURSIVE LimbsMod(_, _, _)
LimbsMod(x, j, m) ==
    IF j > Len(x) THEN 0
    ELSE (LimbsMod(x, j + 1, m) * Byte + x[j]) % m

ProbeIndex(h, i, m) == LimbsMod(WrapSum(h.h1, h.h2, i), 1, m)

\* the sizes s a ScalableBloomFilter starting at s reaches by s = s * r
RECURSIVE Grown(_, _, _)
Grown(s, r, j) == IF j = 0 THEN {s} ELSE {s} \cup Grown(s * r, r, j - 1)

\* the sizes of the filters made from the inputs
IndexedSizes ==
    Sizes \cup CountSizes
    \cup UNION {Grown(m, r, MaxFilters - 1) :
                   m \in FirstSizes, r \in GrowthFactors}

\* the largest k of the filters made from the inputs
LargestHashCount == CHOOSE k \in HashCounts : \A j \in HashCounts : j <= k

\* ind for the hashes of Elements on these sizes, computed once
IndexTable ==
    [h \in {HashOf[e] : e \in Elements} |-> [m \in IndexedSizes |->
        [i \in 0..(LargestHashCount - 1) |-> ProbeIndex(h, i, m)]]]

\* ind, looked up where it was computed before
IndexAt(h, i, m) ==
    IF m \in IndexedSizes THEN IndexTable[h][m][i] ELSE ProbeIndex(h, i, m)

----------------------------------------------------------------------------
(* BloomFilter *)

NewBloomFilter(numHashFuncs, bfSize) ==
    [bitmap |-> [j \in 0..(bfSize - 1) |-> FALSE],
     k |-> numHashFuncs, n |-> 0, m |-> bfSize]

\* BFAddLoop with the loop stopping one probe early (i < bf.k - 1)
RECURSIVE BFAddLoopShort(_, _, _, _, _)
BFAddLoopShort(bitmap, h, i, k, m) ==
    IF i >= k - 1 THEN bitmap
    ELSE BFAddLoopShort([bitmap EXCEPT ![IndexAt(h, i, m)] = TRUE],
                        h, i + 1, k, m)

\* for i := 0; i < bf.k; i++ { bf.bitmap[ind] = true }
RECURSIVE BFAddLoop(_, _, _, _, _)
BFAddLoop(bitmap, h, i, k, m) ==
    IF i >= k THEN bitmap
    ELSE BFAddLoop([bitmap EXCEPT ![IndexAt(h, i, m)] = TRUE],
                   h, i + 1, k, m)

\* BFAdd writing into a cleared bitmap
BFAddFresh(bf, e) ==
    [bf EXCEPT !.bitmap = BFAddLoop([j \in DOMAIN bf.bitmap |-> FALSE],
                                    HashOf[e], 0, bf.k, bf.m),
               !.n = bf.n + 1]

\* BFAdd counting only the calls that change the bitmap
BFAddCountNew(bf, e) ==
    LET bitmap == BFAddLoop(bf.bitmap, HashOf[e], 0, bf.k, bf.m)
    IN  [bf EXCEPT !.bitmap = bitmap,
                   !.n = IF bitmap = bf.bitmap THEN bf.n ELSE bf.n + 1]

BFAdd(bf, e) ==
    [bf EXCEPT !.bitmap = BFAddLoop(bf.bitmap, HashOf[e], 0, bf.k, bf.m),
               !.n = bf.n + 1]

\* BFCheckLoop with result = bf.bitmap[ind] (the && lost)
RECURSIVE BFCheckLoopLast(_, _, _, _, _, _)
BFCheckLoopLast(bitmap, h, i, k, m, result) ==
    IF i >= k THEN result
    ELSE BFCheckLoopLast(bitmap, h, i + 1, k, m, bitmap[IndexAt(h, i, m)])

\* result := true; for ... { result = result && bf.bitmap[ind] }
RECURSIVE BFCheckLoop(_, _, _, _, _, _)
BFCheckLoop(bitmap, h, i, k, m, result) ==
    IF i >= k THEN result
    ELSE BFCheckLoop(bitmap, h, i + 1, k, m,
                     result /\ bitmap[IndexAt(h, i, m)])

BFCheck(bf, x) == BFCheckLoop(bf.bitmap, HashOf[x], 0, bf.k, bf.m, TRUE)

\* float64 values are fixed-point numbers scaled by Scale.  e^(-x) is taken
\* as 1 / e^x, and e^x as the sum of its series; on every k, n, m and f of
\* this model the comparison fpr <= f has the outcome it has in float64.

\* math.Exp(a/b) as the sum of its series, scaled by Scale
RECURSIVE ExpSeries(_, _, _, _)
ExpSeries(a, b, j, term) ==
    IF term = 0 THEN 0
    ELSE term + ExpSeries(a, b, j + 1, (term * a) \div (b * (j + 1)))

\* math.Pow(x, float64(k)), x scaled by Scale
RECURSIVE Pow(_, _)
Pow(x, k) == IF k = 0 THEN Scale ELSE (Pow(x, k - 1) * x) \div Scale

\* math.Pow(1 - math.Exp(-float64(k*n)/float64(m)), float64(k))
FalsePositiveRate(bf) ==
    Pow(Scale - (Scale * Scale) \div ExpSeries(bf.k * bf.n, bf.m, 0, Scale),
        bf.k)

----------------------------------------------------------------------------
(* CountingBloomFilter *)

saturated == 255
Uint8 == 256

NewCountingBloomFilter(numHashFuncs, cbfSize) ==
    [counts |-> [j \in 0..(cbfSize - 1) |-> 0],
     k |-> numHashFuncs, n |-> 0, m |-> cbfSize]

\* Increment without the overflow guard: the uint8 wraps
IncrementWrap(c) == (c + 1) % Uint8

\* if cbf.counts[ind] < 0xFF { cbf.counts[ind] += 1 }
Increment(c) == IF c < saturated THEN (c + 1) % Uint8 ELSE c

RECURSIVE CBFAddLoop(_, _, _, _, _)
CBFAddLoop(counts, h, i, k, m) ==
    IF i >= k THEN counts
    ELSE LET ind == IndexAt(h, i, m)
         IN  CBFAddLoop([counts EXCEPT ![ind] = Increment(counts[ind])],
                        h, i + 1, k, m)

CBFAdd(cbf, e) ==
    [cbf EXCEPT !.counts = CBFAddLoop(cbf.counts, HashOf[e], 0, cbf.k, cbf.m),
                !.n = cbf.n + 1]

\* Decrement without the test counts[ind] > 0: uint8 0 - 1 is 255
DecrementWrap(c) == (c - 1) % Uint8

\* if cbf.counts[ind] > 0 { cbf.counts[ind] -= 1 }
Decrement(c) == IF c > 0 THEN (c - 1) % Uint8 ELSE c

\* CBFRemoveLoop with the loop starting at the second probe (i := 1)
RECURSIVE CBFRemoveLoopFrom1(_, _, _, _, _)
CBFRemoveLoopFrom1(counts, h, i, k, m) ==
    IF i >= k THEN counts
    ELSE LET j == IF i = 0 THEN 1 ELSE i
             ind == IndexAt(h, j, m)
         IN  IF j >= k THEN counts
             ELSE CBFRemoveLoopFrom1(
                      [counts EXCEPT ![ind] = Decrement(counts[ind])],
                      h, j + 1, k, m)

RECURSIVE CBFRemoveLoop(_, _, _, _, _)
CBFRemoveLoop(counts, h, i, k, m) ==
    IF i >= k THEN counts
    ELSE LET ind == IndexAt(h, i, m)
         IN  CBFRemoveLoop([counts EXCEPT ![ind] = Decrement(counts[ind])],
                           h, i + 1, k, m)

\* CBFRemove keeping n at 0 or above
CBFRemoveClamped(cbf, e) ==
    [cbf EXCEPT
       !.counts = CBFRemoveLoop(cbf.counts, HashOf[e], 0, cbf.k, cbf.m),
       !.n = IF cbf.n > 0 THEN cbf.n - 1 ELSE cbf.n]

CBFRemove(cbf, e) ==
    [cbf EXCEPT
       !.counts = CBFRemoveLoop(cbf.counts, HashOf[e], 0, cbf.k, cbf.m),
       !.n = cbf.n - 1]

\* result = result && (cbf.counts[ind] > 0)
RECURSIVE CBFCheckLoop(_, _, _, _, _, _)
CBFCheckLoop(counts, h, i, k, m, result) ==
    IF i >= k THEN result
    ELSE CBFCheckLoop(counts, h, i + 1, k, m,
                      result /\ (counts[IndexAt(h, i, m)] > 0))

CBFCheck(cbf, x) ==
    CBFCheckLoop(cbf.counts, HashOf[x], 0, cbf.k, cbf.m, TRUE)

----------------------------------------------------------------------------
(* ScalableBloomFilter; bfArr[i + 1] is the Go element bfArr[i] *)

NewScalableBloomFilter(numHashFuncs, firstBFSize, maxBloomFilters, growthFactor, targetFPR) ==
    [bfArr |-> <<NewBloomFilter(numHashFuncs, firstBFSize)>>,
     k |-> numHashFuncs, n |-> 0, m |-> firstBFSize, p |-> maxBloomFilters,
     q |-> 1, r |-> growthFactor, s |-> firstBFSize, f |-> targetFPR]

\* fpr > sbf.f on the filter in use
OverTarget(sbf) == FalsePositiveRate(sbf.bfArr[sbf.q]) > sbf.f

\* SBFAdd without the return at sbf.p == sbf.q
SBFAddNoLimit(sbf, e) ==
    LET inuseFilter == sbf.q - 1
        fpr == FalsePositiveRate(sbf.bfArr[inuseFilter + 1])
    IN  IF fpr <= sbf.f
        THEN [sbf EXCEPT
                !.bfArr[inuseFilter + 1] = BFAdd(sbf.bfArr[inuseFilter + 1], e),
                !.n = sbf.n + 1]
        ELSE LET s == sbf.s * sbf.r
                 bf == NewBloomFilter(sbf.k, s)
             IN  [sbf EXCEPT !.s = s,
                             !.bfArr = Append(sbf.bfArr, BFAdd(bf, e)),
                             !.q = sbf.q + 1,
                             !.n = sbf.n + 1]

\* SBFAdd with inuseFilter not moved to the new filter before the insertion
SBFAddStale(sbf, e) ==
    LET inuseFilter == sbf.q - 1
        fpr == FalsePositiveRate(sbf.bfArr[inuseFilter + 1])
    IN  IF fpr <= sbf.f
        THEN [sbf EXCEPT
                !.bfArr[inuseFilter + 1] = BFAdd(sbf.bfArr[inuseFilter + 1], e),
                !.n = sbf.n + 1]
        ELSE IF sbf.p = sbf.q
        THEN sbf
        ELSE LET s == sbf.s * sbf.r
                 bf == NewBloomFilter(sbf.k, s)
             IN  [sbf EXCEPT
                    !.s = s,
                    !.bfArr = Append(
                        [sbf.bfArr EXCEPT
                           ![inuseFilter + 1] =
                               BFAdd(sbf.bfArr[inuseFilter + 1], e)], bf),
                    !.q = sbf.q + 1,
                    !.n = sbf.n + 1]

\* SBFAdd making the new filter with the size s had before s = s * r
SBFAddOldSize(sbf, e) ==
    LET inuseFilter == sbf.q - 1
        fpr == FalsePositiveRate(sbf.bfArr[inuseFilter + 1])
    IN  IF fpr <= sbf.f
        THEN [sbf EXCEPT
                !.bfArr[inuseFilter + 1] = BFAdd(sbf.bfArr[inuseFilter + 1], e),
                !.n = sbf.n + 1]
        ELSE IF sbf.p = sbf.q
        THEN sbf
        ELSE LET s == sbf.s * sbf.r
                 bf == NewBloomFilter(sbf.k, sbf.s)
             IN  [sbf EXCEPT !.s = s,
                             !.bfArr = Append(sbf.bfArr, BFAdd(bf, e)),
                             !.q = sbf.q + 1,
                             !.n = sbf.n + 1]

\* SBFAdd inserting into the first filter of the chain while within target
SBFAddFirst(sbf, e) ==
    LET inuseFilter == sbf.q - 1
        fpr == FalsePositiveRate(sbf.bfArr[inuseFilter + 1])
    IN  IF fpr <= sbf.f
        THEN [sbf EXCEPT !.bfArr[1] = BFAdd(sbf.bfArr[1], e),
                         !.n = sbf.n + 1]
        ELSE IF sbf.p = sbf.q
        THEN sbf
        ELSE LET s == sbf.s * sbf.r
                 bf == NewBloomFilter(sbf.k, s)
             IN  [sbf EXCEPT !.s = s,
                             !.bfArr = Append(sbf.bfArr, BFAdd(bf, e)),
                             !.q = sbf.q + 1,
                             !.n = sbf.n + 1]

\* SBFAdd without sbf.n++ after the insertion into a new filter
SBFAddNoCount(sbf, e) ==
    LET inuseFilter == sbf.q - 1
        fpr == FalsePositiveRate(sbf.bfArr[inuseFilter + 1])
    IN  IF fpr <= sbf.f
        THEN [sbf EXCEPT
                !.bfArr[inuseFilter + 1] = BFAdd(sbf.bfArr[inuseFilter + 1], e),
                !.n = sbf.n + 1]
        ELSE IF sbf.p = sbf.q
        THEN sbf
        ELSE LET s == sbf.s * sbf.r
                 bf == NewBloomFilter(sbf.k, s)
             IN  [sbf EXCEPT !.s = s,
                             !.bfArr = Append(sbf.bfArr, BFAdd(bf, e)),
                             !.q = sbf.q + 1]

SBFAdd(sbf, e) ==
    LET inuseFilter == sbf.q - 1
        fpr == FalsePositiveRate(sbf.bfArr[inuseFilter + 1])
    IN  IF fpr <= sbf.f
        THEN [sbf EXCEPT
                !.bfArr[inuseFilter + 1] = BFAdd(sbf.bfArr[inuseFilter + 1], e),
                !.n = sbf.n + 1]
        ELSE IF sbf.p = sbf.q
        THEN sbf
        ELSE LET s == sbf.s * sbf.r
                 bf == NewBloomFilter(sbf.k, s)
             IN  [sbf EXCEPT !.s = s,
                             !.bfArr = Append(sbf.bfArr, BFAdd(bf, e)),
                             !.q = sbf.q + 1,
                             !.n = sbf.n + 1]

\* SBFCheckLoop looking at the filter in use only
SBFCheckLoopInUse(sbf, e, i) == BFCheck(sbf.bfArr[sbf.q], e)

\* for i := 0; i < sbf.q; i++ { if sbf.bfArr[i].Check(e) { return true } }
RECURSIVE SBFCheckLoop(_, _, _)
SBFCheckLoop(sbf, e, i) ==
    IF i >= sbf.q THEN FALSE
    ELSE IF BFCheck(sbf.bfArr[i + 1], e) THEN TRUE
    ELSE SBFCheckLoop(sbf, e, i + 1)

SBFCheck(sbf, e) == SBFCheckLoop(sbf, e, 0)

----------------------------------------------------------------------------
(* State *)

VARIABLES
    bf,          \* the BloomFilter object
    cbf,         \* the CountingBloomFilter object
    sbf,         \* the ScalableBloomFilter object
    op,          \* the last call: [name, arg]
    ret,         \* the value the last Check returned
    calls,       \* number of Add/Remove calls made so far by the caller
    bfAdded,     \* elements passed to BloomFilter.Add so far
    cbfAdds,     \* per element, number of CountingBloomFilter.Add calls
    cbfRemoves,  \* per element, number of CountingBloomFilter.Remove calls
    cbfLog,      \* the last two single calls on cbf, each with cbf before it
    cbfUnmatched,\* some Remove(x) was called with no Add(x) left to undo
    sbfAdded,    \* elements passed to ScalableBloomFilter.Add so far
    sbfAccepted, \* number of ScalableBloomFilter.Add calls not made at capacity
    probe        \* the last probe index computed: [h1, h2, i, m, ind]

vars == <<bf, cbf, sbf, op, ret, calls, bfAdded, cbfAdds, cbfRemoves, cbfLog,
          cbfUnmatched, sbfAdded, sbfAccepted, probe>>

bfVars == <<bf, bfAdded>>
cbfVars == <<cbf, cbfAdds, cbfRemoves, cbfLog, cbfUnmatched>>
sbfVars == <<sbf, sbfAdded, sbfAccepted>>

Call(name, arg) == [name |-> name, arg |-> arg]

\* what the caller has not constructed stays nil
Nil == [k |-> 0, n |-> 0, m |-> 0]

InitCaller ==
    /\ op = Call("New", <<>>)
    /\ ret = FALSE
    /\ calls = 0
    /\ bfAdded = {}
    /\ sbfAdded = {}
    /\ sbfAccepted = 0
    /\ probe = Nil

InitNoCBF ==
    /\ cbf = Nil
    /\ cbfAdds = [e \in Elements |-> 0]
    /\ cbfRemoves = [e \in Elements |-> 0]
    /\ cbfLog = <<>>
    /\ cbfUnmatched = FALSE

----------------------------------------------------------------------------
(* The standard filter and its caller *)

InitBF ==
    /\ \E k \in HashCounts, m \in Sizes : bf = NewBloomFilter(k, m)
    /\ sbf = Nil
    /\ InitNoCBF
    /\ InitCaller

BFAddCall(e) ==
    /\ calls < MaxAdds
    /\ bf' = BFAdd(bf, e)
    /\ bfAdded' = bfAdded \cup {e}
    /\ op' = Call("Add", e)
    /\ calls' = calls + 1
    /\ UNCHANGED <<ret, cbfVars, sbfVars, probe>>

\* BFCheckCall with Check setting the bits it looks at
BFCheckCallWriting(x) ==
    /\ ret' = BFCheck(bf, x)
    /\ bf' = [bf EXCEPT
                !.bitmap = BFAddLoop(bf.bitmap, HashOf[x], 0, bf.k, bf.m)]
    /\ op' = Call("Check", x)
    /\ UNCHANGED <<calls, bfAdded, cbfVars, sbfVars, probe>>

BFCheckCall(x) ==
    /\ ret' = BFCheck(bf, x)
    /\ op' = Call("Check", x)
    /\ UNCHANGED <<calls, bfVars, cbfVars, sbfVars, probe>>

NextBF ==
    \/ \E e \in Elements : BFAddCall(e)
    \/ \E x \in Elements : BFCheckCall(x)

SpecBF == InitBF /\ [][NextBF]_vars

----------------------------------------------------------------------------
(* The scalable filter and its caller *)

InitSBF ==
    /\ \E k \in HashCounts, m \in FirstSizes, p \in 1..MaxFilters,
          r \in GrowthFactors, f \in TargetFPRs :
          sbf = NewScalableBloomFilter(k, m, p, r, f)
    /\ bf = Nil
    /\ InitNoCBF
    /\ InitCaller

SBFAddCall(e) ==
    /\ sbf' = SBFAdd(sbf, e)
    /\ sbfAdded' = sbfAdded \cup {e}
    /\ sbfAccepted' = IF sbf.q = sbf.p /\ OverTarget(sbf)
                         THEN sbfAccepted ELSE sbfAccepted + 1
    /\ op' = Call("Add", e)
    /\ calls' = calls
    /\ UNCHANGED <<ret, bfVars, cbfVars, probe>>

SBFCheckCall(x) ==
    /\ ret' = SBFCheck(sbf, x)
    /\ op' = Call("Check", x)
    /\ UNCHANGED <<calls, bfVars, cbfVars, sbfVars, probe>>

NextSBF ==
    \/ \E e \in FewElements : SBFAddCall(e)
    \/ \E x \in FewElements : SBFCheckCall(x)

SpecSBF == InitSBF /\ [][NextSBF]_vars

----------------------------------------------------------------------------
(* The counting filter and its caller *)

\* j calls of Add(e), made as two runs of calls; the first run is evaluated
\* (its n is read) before the second starts
RECURSIVE CBFAddTimes(_, _, _)
CBFAddTimes(c, e, j) ==
    IF j = 0 THEN c
    ELSE IF j = 1 THEN CBFAdd(c, e)
    ELSE LET first == CBFAddTimes(c, e, j \div 2)
         IN  IF first.n = c.n THEN c
             ELSE CBFAddTimes(first, e, j - (j \div 2))

\* j calls of Remove(e), likewise
RECURSIVE CBFRemoveTimes(_, _, _)
CBFRemoveTimes(c, e, j) ==
    IF j = 0 THEN c
    ELSE IF j = 1 THEN CBFRemove(c, e)
    ELSE LET first == CBFRemoveTimes(c, e, j \div 2)
         IN  IF first.n = c.n THEN c
             ELSE CBFRemoveTimes(first, e, j - (j \div 2))

InitCBF ==
    /\ \E k \in HashCounts, m \in CountSizes :
          cbf = NewCountingBloomFilter(k, m)
    /\ cbfAdds = [e \in Elements |-> 0]
    /\ cbfRemoves = [e \in Elements |-> 0]
    /\ cbfLog = <<>>
    /\ cbfUnmatched = FALSE
    /\ bf = Nil
    /\ sbf = Nil
    /\ InitCaller

\* for j times { cbf.Add(e) } as the first thing done with a new filter
CBFAddRun(e, j) ==
    /\ op.name = "New"
    /\ cbf' = CBFAddTimes(cbf, e, j)
    /\ cbfAdds' = [cbfAdds EXCEPT ![e] = @ + j]
    /\ op' = Call("Add", e)
    /\ UNCHANGED <<ret, calls, cbfRemoves, cbfLog, cbfUnmatched, bfVars,
                   sbfVars, probe>>

\* for j times { cbf.Remove(e) } right after a longer run of Add(e)
CBFRemoveRun(e, j) ==
    /\ op = Call("Add", e)
    /\ calls = 0
    /\ cbfAdds[e] > j
    /\ cbf' = CBFRemoveTimes(cbf, e, j)
    /\ cbfRemoves' = [cbfRemoves EXCEPT ![e] = @ + j]
    /\ op' = Call("Remove", e)
    /\ UNCHANGED <<ret, calls, cbfAdds, cbfLog, cbfUnmatched, bfVars,
                   sbfVars, probe>>

\* the last two calls, the latest last
Logged(call) ==
    LET log == Append(cbfLog, [call |-> call, before |-> cbf])
    IN  IF Len(log) > 2 THEN Tail(log) ELSE log

CBFAddCall(e) ==
    /\ calls < MaxOps
    /\ cbf' = CBFAdd(cbf, e)
    /\ cbfAdds' = [cbfAdds EXCEPT ![e] = @ + 1]
    /\ cbfLog' = Logged(Call("Add", e))
    /\ op' = Call("Add", e)
    /\ calls' = calls + 1
    /\ UNCHANGED <<ret, cbfRemoves, cbfUnmatched, bfVars, sbfVars, probe>>

CBFRemoveCall(e) ==
    /\ calls < MaxOps
    /\ cbf' = CBFRemove(cbf, e)
    /\ cbfRemoves' = [cbfRemoves EXCEPT ![e] = @ + 1]
    /\ cbfUnmatched' = (cbfUnmatched \/ cbfRemoves[e] >= cbfAdds[e])
    /\ cbfLog' = Logged(Call("Remove", e))
    /\ op' = Call("Remove", e)
    /\ calls' = calls + 1
    /\ UNCHANGED <<ret, cbfAdds, bfVars, sbfVars, probe>>

CBFCheckCall(x) ==
    /\ ret' = CBFCheck(cbf, x)
    /\ cbfLog' = Logged(Call("Check", x))
    /\ op' = Call("Check", x)
    /\ UNCHANGED <<calls, cbf, cbfAdds, cbfRemoves, cbfUnmatched, bfVars,
                   sbfVars, probe>>

NextCBF ==
    \/ \E e \in FewElements, j \in AddRuns : CBFAddRun(e, j)
    \/ \E e \in FewElements, j \in RemoveRuns : CBFRemoveRun(e, j)
    \/ \E e \in FewElements : CBFAddCall(e)
    \/ \E e \in FewElements : CBFRemoveCall(e)
    \/ \E x \in FewElements : CBFCheckCall(x)

SpecCBF == InitCBF /\ [][NextCBF]_vars

----------------------------------------------------------------------------
(* A caller holding one filter of any of the three kinds *)

InitAny == InitBF \/ InitCBF \/ InitSBF

NextAny ==
    \/ bf # Nil /\ NextBF
    \/ cbf # Nil /\ NextCBF
    \/ sbf # Nil /\ NextSBF

SpecAny == InitAny /\ [][NextAny]_vars

----------------------------------------------------------------------------
(* The probe index on its own: ind := (h1 + uint32(i)*h2) % uint32(m) *)

\* uint32 values h1 and h2 may take: 0, 1, 2^31, 2^32 - 1 and the halves of
\* the hashes of the elements
HashWords ==
    {<<0, 0, 0, 0>>, <<1, 0, 0, 0>>, <<0, 0, 0, 128>>, <<255, 255, 255, 255>>}
    \cup {HashOf[e].h1 : e \in Elements} \cup {HashOf[e].h2 : e \in Elements}

\* sizes m the index is taken for
IndexSizes == {1, 2, 3, 4, 5, 7}

\* the caller has picked h1, h2, i and m; ind is not computed yet
InitIndex ==
    /\ bf = Nil
    /\ sbf = Nil
    /\ InitNoCBF
    /\ op = Call("New", <<>>) /\ ret = FALSE /\ calls = 0
    /\ bfAdded = {} /\ sbfAdded = {} /\ sbfAccepted = 0
    /\ \E h1 \in HashWords, h2 \in HashWords, i \in 0..MaxProbe,
          m \in IndexSizes :
          probe = [h1 |-> h1, h2 |-> h2, i |-> i, m |-> m, ind |-> 0]

IndexCall ==
    /\ op.name = "New"
    /\ probe' = [probe EXCEPT
                   !.ind = ProbeIndex([h1 |-> probe.h1, h2 |-> probe.h2],
                                      probe.i, probe.m)]
    /\ op' = Call("Index", <<>>)
    /\ UNCHANGED <<ret, calls, bfVars, cbfVars, sbfVars>>

NextIndex == IndexCall

SpecIndex == InitIndex /\ [][NextIndex]_vars

----------------------------------------------------------------------------
(* Properties *)

\* the k probe positions of x are all set in the bitmap of b
AllProbesSet(b, x) ==
    \A i \in 0..(b.k - 1) : b.bitmap[ProbeIndex(HashOf[x], i, b.m)]

\* number of probes of e that land on slot ind
ProbesOn(c, e, ind) ==
    Cardinality({i \in 0..(c.k - 1) : ProbeIndex(HashOf[e], i, c.m) = ind})

\* no counter that Add(e) touches on c is clamped at 0xFF
NoClamp(c, e) ==
    \A i \in 0..(c.k - 1) :
        LET ind == ProbeIndex(HashOf[e], i, c.m)
        IN  c.counts[ind] + ProbesOn(c, e, ind) <= saturated

\* the last two calls on cbf were Add(e); Remove(e)
AddThenRemove ==
    /\ Len(cbfLog) = 2
    /\ cbfLog[1].call.name = "Add"
    /\ cbfLog[2].call = Call("Remove", cbfLog[1].call.arg)

\* C1: every element passed to ScalableBloomFilter.Add makes Check return
\* true in every later state.
C1_ScalableCompleteness == \A e \in sbfAdded : SBFCheck(sbf, e)

\* C2: once Add(e) was called on a BloomFilter, Check(e) returns true in every
\* later state, whatever else was added; a Check that returned false was
\* for an element never added.
C2_NoFalseNegatives ==
    /\ \A e \in bfAdded : BFCheck(bf, e)
    /\ (op.name = "Check" /\ ~ret) => op.arg \notin bfAdded

C2_Witness ==
    /\ op.name = "Check" /\ ret
    /\ op.arg \in bfAdded
    /\ Cardinality(bfAdded) >= 2
    /\ \E x \in Elements : ~BFCheck(bf, x)

\* C3: every element added to the CountingBloomFilter more often than it was
\* removed makes Check return true, whatever else was added or removed.
C3_CountingNoFalseNegatives ==
    \A e \in FewElements : cbfAdds[e] > cbfRemoves[e] => CBFCheck(cbf, e)

\* C4: every filter in the chain of a ScalableBloomFilter has
\* FalsePositiveRate() <= f in every reachable state.
C4_FilterWithinTarget ==
    \A i \in 1..sbf.q : FalsePositiveRate(sbf.bfArr[i]) <= sbf.f

\* C5: when q == p and the last filter's FalsePositiveRate() > f, a call
\* leaves the whole ScalableBloomFilter unchanged (an Add is dropped), so
\* the state stays frozen from then on.
C5_FrozenAtCapacity ==
    [][(sbf.q = sbf.p /\ OverTarget(sbf)) => sbf' = sbf]_vars

C5_Witness ==
    /\ op.name = "Add"
    /\ sbf.q = sbf.p /\ OverTarget(sbf)
    /\ ~SBFCheck(sbf, op.arg)

\* C6: an Add step increases q iff before it the last filter's
\* FalsePositiveRate() > f and q < p; then one filter of size s * r is
\* appended, s becomes that size, q and n grow by 1 and the element is in
\* the new filter only.
C6_GrowthTrigger ==
    [][op'.name = "Add" =>
         LET grow == OverTarget(sbf) /\ sbf.q < sbf.p
             size == sbf.s * sbf.r
         IN  /\ (sbf'.q > sbf.q) <=> grow
             /\ grow =>
                  /\ sbf'.q = sbf.q + 1
                  /\ Len(sbf'.bfArr) = Len(sbf.bfArr) + 1
                  /\ sbf'.s = size
                  /\ sbf'.bfArr[sbf'.q] =
                        BFAdd(NewBloomFilter(sbf.k, size), op'.arg)
                  /\ \A i \in 1..sbf.q : sbf'.bfArr[i] = sbf.bfArr[i]
                  /\ sbf'.n = sbf.n + 1]_vars

C6_Witness ==
    /\ op.name = "Add"
    /\ sbf.q = 2 /\ sbf.r = 2
    /\ sbf.bfArr[2].n = 1 /\ sbf.bfArr[2].m = 2 * sbf.bfArr[1].m
    /\ ~BFCheck(sbf.bfArr[1], op.arg)

\* C7: Add(e) immediately followed by Remove(e) on a CountingBloomFilter
\* where Add clamps no counter restores every counter and n; on a new
\* filter it leaves every counter 0 and Check(e) false.
C7_AddRemoveInverse ==
    AddThenRemove =>
        LET before == cbfLog[1].before
            e == cbfLog[1].call.arg
        IN  /\ NoClamp(before, e) => cbf = before
            /\ before = NewCountingBloomFilter(cbf.k, cbf.m) =>
                  /\ \A j \in 0..(cbf.m - 1) : cbf.counts[j] = 0
                  /\ ~CBFCheck(cbf, e)

C7_Witness ==
    /\ AddThenRemove
    /\ NoClamp(cbfLog[1].before, cbfLog[1].call.arg)
    /\ \E i \in 0..(cbf.k - 1) :
          cbf.counts[ProbeIndex(HashOf[cbfLog[1].call.arg], i, cbf.m)] > 0
    /\ cbf.n # 0

\* C8: ScalableBloomFilter.Check(e) returns true iff at least one of the q
\* filters of the chain returns true for Check(e).
C8_CheckIsDisjunction ==
    op.name = "Check" =>
        (ret <=> \E i \in 1..sbf.q : BFCheck(sbf.bfArr[i], op.arg))

C8_Witness ==
    /\ op.name = "Check" /\ ret
    /\ sbf.q >= 2
    /\ ~BFCheck(sbf.bfArr[sbf.q], op.arg)

\* C9: BloomFilter.Check returns true iff all k probe positions of the
\* element are set; on a new filter it returns false for every element.
C9_CheckAllProbes ==
    op.name = "Check" =>
        /\ ret <=> AllProbesSet(bf, op.arg)
        /\ bf.n = 0 => ~ret

C9_Witness ==
    /\ op.name = "Check" /\ ~ret
    /\ \E i, j \in 0..(bf.k - 1) :
          /\ bf.bitmap[ProbeIndex(HashOf[op.arg], i, bf.m)]
          /\ ~bf.bitmap[ProbeIndex(HashOf[op.arg], j, bf.m)]

\* C10: with no Remove ever called on a CountingBloomFilter, every element
\* that was added makes Check return true, also once counters are saturated
\* at 255.
C10_CountingAddsOnly ==
    (\A x \in FewElements : cbfRemoves[x] = 0) =>
        /\ \A e \in FewElements : cbfAdds[e] > 0 => CBFCheck(cbf, e)
        /\ (op.name = "Check" /\ cbfAdds[op.arg] > 0) => ret

C10_Witness ==
    /\ \A x \in FewElements : cbfRemoves[x] = 0
    /\ op.name = "Check" /\ ret
    /\ cbfAdds[op.arg] > saturated
    /\ \E j \in 0..(cbf.m - 1) : cbf.counts[j] = saturated

\* r^j
RECURSIVE IntPow(_, _)
IntPow(r, j) == IF j = 0 THEN 1 ELSE r * IntPow(r, j - 1)

\* C11: in every state of a ScalableBloomFilter 1 <= q <= p, the chain holds
\* exactly q filters, s is the size of the last filter, and filter i
\* (0-based) has size firstSize * r^i, so s = firstSize * r^(q-1).
C11_ChainInvariants ==
    /\ 1 <= sbf.q /\ sbf.q <= sbf.p
    /\ Len(sbf.bfArr) = sbf.q
    /\ sbf.s = sbf.bfArr[sbf.q].m
    /\ sbf.s = sbf.m * IntPow(sbf.r, sbf.q - 1)
    /\ \A i \in 0..(sbf.q - 1) :
          /\ sbf.bfArr[i + 1].m = sbf.m * IntPow(sbf.r, i)
          /\ DOMAIN sbf.bfArr[i + 1].bitmap = 0..(sbf.bfArr[i + 1].m - 1)

C11_Witness ==
    /\ sbf.q = 2 /\ sbf.r = 2
    /\ sbf.s = 2 * sbf.m
    /\ sbf.bfArr[2].n >= 1

\* C12: when every Remove(x) undoes an earlier Add(x) that was not yet
\* removed, every element with an outstanding Add makes Check return true,
\* also when counters reach 255 on the way.
C12_MatchedRemovesNoFalseNegatives ==
    ~cbfUnmatched =>
        \A e \in FewElements : cbfAdds[e] > cbfRemoves[e] => CBFCheck(cbf, e)

\* h1 + i*h2 as a number, not cut to 32 bits: limb 5 is the carry
FullSum(h1, h2, i) ==
    [j \in 1..5 |-> IF j <= 4 THEN SumColumn(h1, h2, i, j) % Byte
                    ELSE SumColumn(h1, h2, i, 4) \div Byte]

\* (h1 + i*h2) mod m over the integers
ExactMod(h1, h2, i, m) == LimbsMod(FullSum(h1, h2, i), 1, m)

\* 2^32 mod m
Two32Mod(m) == LimbsMod(<<0, 0, 0, 0, 1>>, 1, m)

C14_MonotoneBitmap ==
    [][/\ DOMAIN bf'.bitmap = DOMAIN bf.bitmap
       /\ \A j \in DOMAIN bf.bitmap : bf.bitmap[j] => bf'.bitmap[j]
       /\ calls' = calls + 1 =>
              /\ op'.name = "Add"
              /\ \A j \in DOMAIN bf.bitmap :
                     bf'.bitmap[j] <=>
                         (bf.bitmap[j] \/ ProbesOn(bf, op'.arg, j) > 0)
       /\ calls' = calls => bf'.bitmap = bf.bitmap]_vars

\* an Add has kept a bit of an earlier Add that is none of its own probes
C14_Witness ==
    /\ op.name = "Add"
    /\ bf.n >= 2
    /\ \E j \in DOMAIN bf.bitmap :
           bf.bitmap[j] /\ ProbesOn(bf, op.arg, j) = 0

\* C15: n of a BloomFilter equals the number of Add calls made, duplicates
\* included; Add(e) of an element added before leaves the bitmap unchanged
\* and increments n by exactly 1.
C15_AddIdempotentOnBitmap ==
    [][/\ bf.n = calls
       /\ bf'.n = calls'
       /\ (calls' = calls + 1 /\ op'.arg \in bfAdded) =>
              /\ bf'.bitmap = bf.bitmap
              /\ bf'.n = bf.n + 1]_vars

\* the last call was an Add and some Add so far repeated an element
C15_Witness ==
    /\ op.name = "Add"
    /\ op.arg \in bfAdded
    /\ bf.n > Cardinality(bfAdded)
    /\ bf.n = calls

Min(a, b) == IF a <= b THEN a ELSE b

Max(a, b) == IF a >= b THEN a ELSE b

\* the number of probes of e that land on counter j of a counting filter
\* with k probes and size m
CountProbesOn ==
    [e \in FewElements |-> [k \in HashCounts |-> [m \in CountSizes |->
        [j \in 0..(m - 1) |->
            Cardinality({i \in 0..(k - 1) :
                            ProbeIndex(HashOf[e], i, m) = j})]]]]

\* C16: every counter of a CountingBloomFilter is in 0..255 in every state;
\* a calls of Add(e) leave counter j at min(255, old + a * (probes of e on
\* j)), so a counter at 255 stays at 255; d calls of Remove(e) leave it at
\* max(0, old - d * (probes of e on j)), so a counter at 0 stays at 0.
C16_SaturatingCounters ==
    [][LET e == op'.arg
           a == cbfAdds'[e] - cbfAdds[e]
           d == cbfRemoves'[e] - cbfRemoves[e]
           on == CountProbesOn[e][cbf.k][cbf.m]
       IN  /\ DOMAIN cbf'.counts = DOMAIN cbf.counts
           /\ \A j \in DOMAIN cbf.counts :
                 /\ cbf.counts[j] \in 0..saturated
                 /\ cbf'.counts[j] \in 0..saturated
                 /\ op'.name = "Add" =>
                        cbf'.counts[j] =
                            Min(saturated, cbf.counts[j] + a * on[j])
                 /\ op'.name = "Remove" =>
                        cbf'.counts[j] = Max(0, cbf.counts[j] - d * on[j])
                 /\ op'.name = "Check" => cbf'.counts[j] = cbf.counts[j]]_vars

\* the last two calls were an Add that found a probed counter at 255 and a
\* Remove that found a probed counter at 0; both counters are where they were
C16_Witness ==
    /\ Len(cbfLog) = 2
    /\ cbfLog[1].call.name = "Add"
    /\ cbfLog[2].call.name = "Remove"
    /\ \E j \in DOMAIN cbf.counts :
          /\ ProbesOn(cbf, cbfLog[1].call.arg, j) > 0
          /\ cbfLog[1].before.counts[j] = saturated
          /\ cbfLog[2].before.counts[j] = saturated
    /\ \E j \in DOMAIN cbf.counts :
          /\ ProbesOn(cbf, cbfLog[2].call.arg, j) > 0
          /\ cbfLog[2].before.counts[j] = 0
          /\ cbf.counts[j] = 0

\* the sum of f over the elements of S
RECURSIVE SumOver(_, _)
SumOver(f, S) ==
    IF S = {} THEN 0
    ELSE LET e == CHOOSE x \in S : TRUE
         IN  f[e] + SumOver(f, S \ {e})

\* C17: n of a CountingBloomFilter equals the number of Add calls minus the
\* number of Remove calls, whatever the counters held when Remove was called;
\* it is negative when more Removes than Adds were made.
C17_CountIsAddsMinusRemoves ==
    cbf.n = SumOver(cbfAdds, FewElements) - SumOver(cbfRemoves, FewElements)

\* a Remove of an element never added, on all-zero counters, left n negative
C17_Witness ==
    /\ op.name = "Remove"
    /\ cbfAdds[op.arg] = 0
    /\ \A j \in DOMAIN cbf.counts : cbf.counts[j] = 0
    /\ Len(cbfLog) >= 1
    /\ \A j \in DOMAIN cbf.counts : cbfLog[Len(cbfLog)].before.counts[j] = 0
    /\ cbf.n < 0
    /\ SumOver(cbfRemoves, FewElements) > SumOver(cbfAdds, FewElements)

\* C18: over any sequence of calls on a ScalableBloomFilter q never
\* decreases, the chain loses no filter and no filter changes size or k;
\* every filter that has a newer one after it keeps its bitmap and n; an Add
\* that finds FalsePositiveRate() <= f on the last filter inserts into that
\* filter and changes nothing else of the chain.
C18_OnlyLastFilterWritten ==
    [][/\ sbf'.q >= sbf.q
       /\ Len(sbf'.bfArr) >= Len(sbf.bfArr)
       /\ \A i \in 1..Len(sbf.bfArr) :
             /\ sbf'.bfArr[i].m = sbf.bfArr[i].m
             /\ sbf'.bfArr[i].k = sbf.bfArr[i].k
             /\ DOMAIN sbf'.bfArr[i].bitmap = DOMAIN sbf.bfArr[i].bitmap
       /\ \A i \in 1..(sbf'.q - 1) : sbf'.bfArr[i] = sbf.bfArr[i]
       /\ (op'.name = "Add" /\ ~OverTarget(sbf)) =>
              /\ sbf'.q = sbf.q
              /\ sbf'.bfArr =
                     [sbf.bfArr EXCEPT ![sbf.q] = BFAdd(@, op'.arg)]]_vars

\* an Add went into the second filter, which held an element already, while
\* the first filter holds the elements it had
C18_Witness ==
    /\ op.name = "Add"
    /\ sbf.q = 2
    /\ sbf.bfArr[2].n >= 2
    /\ sbf.bfArr[1].n >= 1
    /\ BFCheck(sbf.bfArr[2], op.arg)

\* the sum of the n fields of the first i filters of the chain
RECURSIVE ChainCount(_, _)
ChainCount(bfArr, i) ==
    IF i = 0 THEN 0 ELSE bfArr[i].n + ChainCount(bfArr, i - 1)

\* C19: n of a ScalableBloomFilter equals the sum of the n fields of the q
\* filters of its chain and equals the number of Add calls that were not
\* dropped at capacity.
C19_CountIsChainSum ==
    /\ sbf.n = ChainCount(sbf.bfArr, sbf.q)
    /\ sbf.n = sbfAccepted

\* an Add was dropped at capacity on a chain of two filters
C19_Witness ==
    /\ op.name = "Add"
    /\ sbf.q = sbf.p /\ sbf.q = 2 /\ OverTarget(sbf)
    /\ ~SBFCheck(sbf, op.arg)
    /\ sbf.bfArr[1].n >= 1 /\ sbf.bfArr[2].n >= 1
    /\ sbfAccepted = sbf.n

====
